---- MODULE Spec2Model ----
(***************************************************************************)
(* Model of python/dgl/nn/pytorch/graph_transformer.py: the DegreeEncoder *)
(* and BiasedMultiheadAttention modules.                                  *)
(*                                                                         *)
(* Tensors are records [shape, data] with data in row-major order, so the *)
(* reshape / transpose / permute bookkeeping of the source is modelled by *)
(* index arithmetic and not assumed.  Numbers are exact reals:            *)
(*   - features, weights, biases are integers;                           *)
(*   - scores live in Z[sqrt(head_dim)], written a + b*sqrt(head_dim),    *)
(*     plus the value -inf written by the mask;                           *)
(*   - a softmax weight is kept symbolically as exp(e) / sum exp(den),    *)
(*     with exponents taken relative to the row maximum, or is exactly    *)
(*     zero, or NaN;                                                      *)
(*   - outputs are integer combinations of softmax weights.               *)
(***************************************************************************)
EXTENDS Integers, Sequences, FiniteSets, TLC

(*************************** bounds of the model ***************************)
MaxFeat == 4
MaxHeads == 3
MaxBatch == 2
MaxN == 2
MaxSeed == 2
MaxEdges == 3
MaxDegree == 2
MaxDim == 2

(***************************** tensor algebra ******************************)
RECURSIVE Prod(_)
Prod(s) == IF s = <<>> THEN 1 ELSE Head(s) * Prod(Tail(s))

Numel(shape) == Prod(shape)

\* the sequence s with every element evaluated
Eval(s) == SubSeq(s, 1, Len(s))

\* row-major strides: Strides(shape)[d] is the product of the sizes after dimension d
Strides(shape) == Eval([d \in 1..Len(shape) |-> Prod(SubSeq(shape, d + 1, Len(shape)))])

\* 0-based index tuple of the k-th (0-based) element in row-major order
Unflat(shape, st, k) == [d \in 1..Len(shape) |-> (k \div st[d]) % shape[d]]

\* row-major position of a 0-based index tuple, by Horner's rule over the first d dims
RECURSIVE FlatFrom(_, _, _)
FlatFrom(shape, idx, d) ==
    IF d = 0 THEN 0 ELSE FlatFrom(shape, idx, d - 1) * shape[d] + idx[d]

Flat(shape, idx) == FlatFrom(shape, idx, Len(shape))

At(t, idx) == t.data[Flat(t.shape, idx) + 1]

MkTensor(shape, F(_)) ==
    LET st == Strides(shape)
    IN  [shape |-> shape,
         data |-> Eval([k \in 1..Numel(shape) |-> F(Unflat(shape, st, k - 1))])]

NoneT == [shape |-> <<>>, data |-> <<>>]

Swap(s, a, b) ==
    [d \in 1..Len(s) |-> IF d = a + 1 THEN s[b + 1] ELSE IF d = b + 1 THEN s[a + 1] ELSE s[d]]

\* torch.Tensor.transpose(a, b), dims 0-based as in the source
Transpose(t, a, b) ==
    MkTensor(Swap(t.shape, a, b), LAMBDA idx : At(t, Swap(idx, a, b)))

\* torch.Tensor.permute(p): result dim d is source dim p[d]
Permute(t, p) ==
    MkTensor([d \in 1..Len(p) |-> t.shape[p[d] + 1]],
             LAMBDA idx : At(t, [s \in 1..Len(p) |->
                                    idx[CHOOSE d \in 1..Len(p) : p[d] + 1 = s]]))

\* torch.Tensor.reshape: same elements in the same row-major order
Reshape(t, shape) == [shape |-> shape, data |-> t.data]

Map(t, F(_)) ==
    [shape |-> t.shape, data |-> [k \in 1..Len(t.data) |-> F(t.data[k])]]

Map2(t, u, F(_, _)) ==
    [shape |-> t.shape, data |-> Eval([k \in 1..Len(t.data) |-> F(t.data[k], u.data[k])])]

\* torch.bmm over a value domain given by its inner product
Bmm(x, y, Dot(_, _)) ==
    MkTensor(<<x.shape[1], x.shape[2], y.shape[3]>>,
             LAMBDA idx : Dot([m \in 1..x.shape[3] |-> At(x, <<idx[1], idx[2], m - 1>>)],
                              [m \in 1..x.shape[3] |-> At(y, <<idx[1], m - 1, idx[3]>>)]))

RECURSIVE SumSeq(_)
SumSeq(s) == IF s = <<>> THEN 0 ELSE Head(s) + SumSeq(Tail(s))

(************************ numbers in Z[sqrt(d)] ****************************)
\* the real a + b*sqrt(d); d is the module's head_dim
Rad(a, b) == [a |-> a, b |-> b]

IsSquare(d) == \E r \in 0..d : r * r = d

Isqrt(d) == CHOOSE r \in 0..d : r * r = d

\* unique representative: when sqrt(d) is an integer it is folded into a
RNorm(x, d) == IF IsSquare(d) THEN Rad(x.a + x.b * Isqrt(d), 0) ELSE x

RAdd(x, y) == Rad(x.a + y.a, x.b + y.b)

RSub(x, y) == Rad(x.a - y.a, x.b - y.b)

RScale(x, c) == Rad(x.a * c, x.b * c)

\* a + b*sqrt(d) >= 0, decided in integers
RNonNeg(x, d) ==
    IF x.a >= 0 /\ x.b >= 0 THEN TRUE
    ELSE IF x.a <= 0 /\ x.b <= 0 THEN FALSE
    ELSE IF x.a >= 0 THEN x.a * x.a >= x.b * x.b * d
    ELSE x.b * x.b * d >= x.a * x.a

RECURSIVE RSum(_)
RSum(s) == IF s = <<>> THEN Rad(0, 0) ELSE RAdd(Head(s), RSum(Tail(s)))

(****************************** score values *******************************)
Fin(x) == [k |-> "fin", v |-> x]

NegInf == [k |-> "ninf", v |-> Rad(0, 0)]

\* inner product of a row of scaled queries (in Z[sqrt d]) and a column of keys (integers)
DotQK(q, k) == RSum([m \in 1..Len(q) |-> RScale(q[m], k[m])])

(***************************** softmax weights *****************************)
\* exp(e) / sum of exp over den, den a set of <<exponent, multiplicity>>
WExp(e, den) == [k |-> "exp", e |-> e, den |-> den]

WZero == [k |-> "zero", e |-> Rad(0, 0), den |-> {}]

WNaN == [k |-> "nan", e |-> Rad(0, 0), den |-> {}]

\* softmax of one row of scores; exponents are taken relative to the row maximum.
\* A row of -inf only gives exp(-inf - (-inf)) = exp(NaN): every entry is NaN.
SoftmaxRow(row, d) ==
    LET fin == {j \in 1..Len(row) : row[j].k = "fin"}
    IN  IF fin = {} THEN [j \in 1..Len(row) |-> WNaN]
        ELSE LET mx  == row[CHOOSE j \in fin :
                              \A i \in fin : RNonNeg(RSub(row[j].v, row[i].v), d)].v
                 ex(j) == RSub(row[j].v, mx)
                 den == {<<ex(j), Cardinality({i \in fin : ex(i) = ex(j)})>> : j \in fin}
             IN  [j \in 1..Len(row) |->
                    IF row[j].k = "ninf" THEN WZero ELSE WExp(ex(j), den)]

\* F.softmax(t, dim=2) of a 3-D tensor
Softmax(t, d) ==
    MkTensor(t.shape,
             LAMBDA idx : SoftmaxRow([j \in 1..t.shape[3] |->
                                        At(t, <<idx[1], idx[2], j - 1>>)], d)[idx[3] + 1])

(************** outputs: integer combinations of softmax weights ***********)
\* c + sum of coef * weight over t, t a set of <<weight, coef>> with coef # 0; or NaN
Comb(c, t) == [nan |-> FALSE, c |-> c, t |-> t]

CNaN == [nan |-> TRUE, c |-> 0, t |-> {}]

CConst(n) == Comb(n, {})

Coef(x, w) == IF \E p \in x.t : p[1] = w THEN (CHOOSE p \in x.t : p[1] = w)[2] ELSE 0

CAdd(x, y) ==
    IF x.nan \/ y.nan THEN CNaN
    ELSE LET ws == {p[1] : p \in x.t \cup y.t}
         IN  Comb(x.c + y.c,
                  {<<w, Coef(x, w) + Coef(y, w)>> : w \in {u \in ws : Coef(x, u) + Coef(y, u) # 0}})

CScale(x, n) ==
    IF x.nan THEN CNaN
    ELSE Comb(x.c * n, {<<p[1], p[2] * n>> : p \in {q \in x.t : q[2] * n # 0}})

\* weight * integer value; 0 * NaN is NaN, an exactly-zero weight contributes 0
CTerm(w, v) ==
    IF w.k = "nan" THEN CNaN
    ELSE IF w.k = "zero" \/ v = 0 THEN CConst(0)
    ELSE Comb(0, {<<w, v>>})

RECURSIVE CSum(_)
CSum(s) == IF s = <<>> THEN CConst(0) ELSE CAdd(Head(s), CSum(Tail(s)))

\* inner product of a row of softmax weights and a column of values (integers)
DotWV(w, v) == CSum([m \in 1..Len(w) |-> CTerm(w[m], v[m])])

(******************************* nn.Linear *********************************)
\* y[.., g] = sum_f weight[g, f] * x[.., f] + bias[g], over the value domain given
\* by Scale (value * integer), Sum (of a sequence) and AddInt (value + integer)
Linear(x, lin, Scale(_, _), Sum(_), AddInt(_, _)) ==
    LET r == Len(x.shape)
        F == x.shape[r]
    IN  MkTensor(x.shape,
                 LAMBDA idx :
                    LET acc == Sum([f \in 1..F |->
                                      Scale(At(x, [d \in 1..r |-> IF d = r THEN f - 1 ELSE idx[d]]),
                                            At(lin.weight, <<idx[r], f - 1>>))])
                    IN  IF lin.bias = NoneT THEN acc
                        ELSE AddInt(acc, At(lin.bias, <<idx[r]>>)))

IntScale(x, n) == x * n

IntAdd(x, n) == x + n

CAddInt(x, n) == CAdd(x, CConst(n))

(****************************** DegreeEncoder ******************************)
VARIABLES
    dpc,               \* "new" | "built" | "degrees" | "lookup"
    enc,               \* the encoder object
    graph,             \* argument of the forward call in progress / last made
    g, in_degree, out_degree,     \* locals of forward
    degree_embedding,  \* value returned by the last completed forward call
    derror             \* "none", or the exception the last forward call raised

degVars == <<dpc, enc, graph, g, in_degree, out_degree, degree_embedding, derror>>

\* an integer in -2..2 drawn by a seed: stands for a value the random initialiser
\* (weights) or the caller (features, biases) may produce
Draw(seed, salt, i, j) == ((seed + 2 * salt + i + 2 * j + i * j + seed * j) % 5) - 2

\* "total" stands for any value other than the three the module knows
Directions == {"in", "out", "both", "total"}

NoEncoder ==
    [direction |-> "", max_degree |-> 0,
     degree_encoder |-> NoneT, degree_encoder_1 |-> NoneT, degree_encoder_2 |-> NoneT]

\* a graph: num_nodes nodes 0..num_nodes-1, mult[u * num_nodes + v + 1] edges u -> v
\* (the edge list up to its order), and the numbers of node and edge types
NoGraph == [num_nodes |-> 0, mult |-> <<>>, ntypes |-> 0, etypes |-> 0]

\* sequences of p multiplicities with sum at most k
RECURSIVE EdgeMults(_, _)
EdgeMults(p, k) ==
    IF p = 0 THEN {<<>>}
    ELSE UNION {{<<m>> \o r : r \in EdgeMults(p - 1, k - m)} : m \in 0..k}

Graphs ==
    UNION {{[num_nodes |-> n, mult |-> m, ntypes |-> nt, etypes |-> et] :
              m \in EdgeMults(n * n, MaxEdges), nt \in {1, IF n > 1 THEN 2 ELSE 1},
              et \in {1, 2}}
           : n \in 1..MaxN}

\* variant: the padding row is drawn like the others (padding_idx not honoured)
Embedding_NoPadding(num_embeddings, embedding_dim, padding_idx, seed) ==
    MkTensor(<<num_embeddings, embedding_dim>>,
             LAMBDA idx : Draw(seed, 0, idx[1], idx[2]))

\* nn.Embedding(num_embeddings, embedding_dim, padding_idx): freshly drawn rows, the
\* row at padding_idx set to zero
Embedding(num_embeddings, embedding_dim, padding_idx, seed) ==
    MkTensor(<<num_embeddings, embedding_dim>>,
             LAMBDA idx : IF idx[1] = padding_idx THEN 0 ELSE Draw(seed, 0, idx[1], idx[2]))

\* __init__, lines 39-53
DegreeEncoder(max_degree, embedding_dim, direction, seed) ==
    IF direction = "both"
    THEN [direction |-> direction, max_degree |-> max_degree,
          degree_encoder |-> NoneT,
          degree_encoder_1 |-> Embedding(max_degree + 1, embedding_dim, 0, seed),
          degree_encoder_2 |-> Embedding(max_degree + 1, embedding_dim, 0, seed + 1)]
    ELSE [direction |-> direction, max_degree |-> max_degree,
          degree_encoder |-> Embedding(max_degree + 1, embedding_dim, 0, seed),
          degree_encoder_1 |-> NoneT, degree_encoder_2 |-> NoneT]

\* dgl.to_homogeneous: the same nodes and edges under a single node and edge type
to_homogeneous(gr) == [gr EXCEPT !.ntypes = 1, !.etypes = 1]

EdgeCount(gr, u, v) == gr.mult[u * gr.num_nodes + v + 1]

in_degrees(gr) ==
    MkTensor(<<gr.num_nodes>>,
             LAMBDA idx : SumSeq([u \in 1..gr.num_nodes |-> EdgeCount(gr, u - 1, idx[1])]))

out_degrees(gr) ==
    MkTensor(<<gr.num_nodes>>,
             LAMBDA idx : SumSeq([v \in 1..gr.num_nodes |-> EdgeCount(gr, idx[1], v - 1)]))

\* variant: only the lower bound is applied
clamp_NoMax(t, lo, hi) == Map(t, LAMBDA x : IF x < lo THEN lo ELSE x)

\* th.clamp(t, min=lo, max=hi)
clamp(t, lo, hi) ==
    Map(t, LAMBDA x : LET y == IF x < lo THEN lo ELSE x IN IF y > hi THEN hi ELSE y)

\* the marker of a raised IndexError (no tensor has this shape)
IndexError == [shape |-> <<-1>>, data |-> <<>>]

\* table(index): row index[v] of the table for every node v; an index outside the
\* table raises IndexError
Lookup(table, index) ==
    IF \E k \in 1..Len(index.data) : index.data[k] \notin 0..(table.shape[1] - 1)
    THEN IndexError
    ELSE MkTensor(<<index.shape[1], table.shape[2]>>,
                  LAMBDA idx : At(table, <<At(index, <<idx[1]>>), idx[2]>>))

TAdd(x, y) ==
    IF x = IndexError \/ y = IndexError THEN IndexError ELSE Map2(x, y, LAMBDA p, q : p + q)

\* lines 69-70
Homogeneous(gr) == IF gr.ntypes > 1 \/ gr.etypes > 1 THEN to_homogeneous(gr) ELSE gr

\* line 71
ClampedIn(e, gr) == clamp(in_degrees(gr), 0, e.max_degree)

\* line 72
ClampedOut(e, gr) == clamp(out_degrees(gr), 0, e.max_degree)

\* variant: "both" looks up the in-degree on both tables
Encode_BothUsesInDegree(e, ind, outd) ==
    LET val == IF e.direction = "in" THEN Lookup(e.degree_encoder, ind)
               ELSE IF e.direction = "out" THEN Lookup(e.degree_encoder, outd)
               ELSE IF e.direction = "both"
                    THEN TAdd(Lookup(e.degree_encoder_1, ind), Lookup(e.degree_encoder_2, ind))
               ELSE NoneT
    IN  IF e.direction \notin {"in", "out", "both"} THEN [err |-> "ValueError", val |-> NoneT]
        ELSE IF val = IndexError THEN [err |-> "IndexError", val |-> NoneT]
        ELSE [err |-> "none", val |-> val]

\* variant: an unrecognized direction is treated as "in" and no error is raised
Encode_FallsBackToIn(e, ind, outd) ==
    LET val == IF e.direction = "out" THEN Lookup(e.degree_encoder, outd)
               ELSE IF e.direction = "both"
                    THEN TAdd(Lookup(e.degree_encoder_1, ind), Lookup(e.degree_encoder_2, outd))
               ELSE Lookup(e.degree_encoder, ind)
    IN  IF val = IndexError THEN [err |-> "IndexError", val |-> NoneT]
        ELSE [err |-> "none", val |-> val]

\* lines 74-87: [err, val], err the exception raised or "none"
Encode(e, ind, outd) ==
    LET val == IF e.direction = "in" THEN Lookup(e.degree_encoder, ind)
               ELSE IF e.direction = "out" THEN Lookup(e.degree_encoder, outd)
               ELSE IF e.direction = "both"
                    THEN TAdd(Lookup(e.degree_encoder_1, ind), Lookup(e.degree_encoder_2, outd))
               ELSE NoneT
    IN  IF e.direction \notin {"in", "out", "both"} THEN [err |-> "ValueError", val |-> NoneT]
        ELSE IF val = IndexError THEN [err |-> "IndexError", val |-> NoneT]
        ELSE [err |-> "none", val |-> val]


(************************** BiasedMultiheadAttention ***********************)
VARIABLES
    pc,            \* "new" | "failed" | "ready" | "project" | "scores" | "bias" | "mask" | "softmax" | "output"
    ctor_args,     \* arguments of the last constructor call
    mha,           \* the module object: its fields and learned parameters
    ndata, attn_bias, attn_mask,       \* arguments of the forward call in progress / last made
    q_h, k_h, v_h, attn_weights,       \* locals of forward
    result,        \* value returned by the last completed forward call
    expected       \* caller's copy of the previous result, kept when it repeats a call

BiasTypes == {"add", "mul"}

NoArgs == [feat_size |-> 0, num_heads |-> 0, bias |-> FALSE, attn_bias_type |-> "add"]

NoLinear == [weight |-> NoneT, bias |-> NoneT]

NoModule ==
    [feat_size |-> 0, num_heads |-> 0, head_dim |-> 0, scaling |-> [rsqrt_of |-> 0],
     attn_bias_type |-> "add",
     q_proj |-> NoLinear, k_proj |-> NoLinear, v_proj |-> NoLinear, out_proj |-> NoLinear]

\* nn.Linear(feat_size, feat_size, bias=bias) with freshly drawn parameters
NewLinear(F, bias, seed, salt) ==
    [weight |-> MkTensor(<<F, F>>, LAMBDA idx : Draw(seed, salt, idx[1], idx[2])),
     bias   |-> IF bias THEN MkTensor(<<F>>, LAMBDA idx : Draw(seed, salt + 1, idx[1], 0))
                ELSE NoneT]

\* reset_parameters: xavier_uniform_ redraws the four weights, out_proj.bias is set to 0
reset_parameters(m, seed) ==
    LET F == m.feat_size
        W(salt) == MkTensor(<<F, F>>, LAMBDA idx : Draw(seed + 1, salt, idx[1], idx[2]))
    IN  [m EXCEPT !.q_proj.weight = W(0), !.k_proj.weight = W(1), !.v_proj.weight = W(2),
                  !.out_proj.weight = W(3),
                  !.out_proj.bias = IF m.out_proj.bias # NoneT
                                    THEN MkTensor(<<F>>, LAMBDA idx : 0) ELSE NoneT]

\* variant: the assertion compares with <=, which the floor division always satisfies
BiasedMultiheadAttention_WeakAssert(feat_size, num_heads, bias, attn_bias_type, seed) ==
    LET head_dim == feat_size \div num_heads
    IN  IF ~(head_dim * num_heads <= feat_size)
        THEN [ok |-> FALSE, obj |-> NoModule]
        ELSE [ok |-> TRUE,
              obj |-> reset_parameters(
                  [feat_size |-> feat_size, num_heads |-> num_heads, head_dim |-> head_dim,
                   scaling |-> [rsqrt_of |-> head_dim],
                   attn_bias_type |-> attn_bias_type,
                   q_proj |-> NewLinear(feat_size, bias, seed, 0),
                   k_proj |-> NewLinear(feat_size, bias, seed, 1),
                   v_proj |-> NewLinear(feat_size, bias, seed, 2),
                   out_proj |-> NewLinear(feat_size, bias, seed, 3)], seed)]

\* __init__: [ok |-> FALSE] when the assertion fails, else the constructed object
BiasedMultiheadAttention(feat_size, num_heads, bias, attn_bias_type, seed) ==
    LET head_dim == feat_size \div num_heads
    IN  IF head_dim * num_heads # feat_size
        THEN [ok |-> FALSE, obj |-> NoModule]
        ELSE [ok |-> TRUE,
              obj |-> reset_parameters(
                  [feat_size |-> feat_size, num_heads |-> num_heads, head_dim |-> head_dim,
                   scaling |-> [rsqrt_of |-> head_dim],
                   attn_bias_type |-> attn_bias_type,
                   q_proj |-> NewLinear(feat_size, bias, seed, 0),
                   k_proj |-> NewLinear(feat_size, bias, seed, 1),
                   v_proj |-> NewLinear(feat_size, bias, seed, 2),
                   out_proj |-> NewLinear(feat_size, bias, seed, 3)], seed)]

\* x / scaling, scaling = head_dim ** -0.5: the real x * sqrt(head_dim)
DivScaling(x, scaling) == RNorm(Rad(0, x), scaling.rsqrt_of)

\* lines 184, 188
ProjectQ(m, x) ==
    LET bsz == x.shape[1]
        N   == x.shape[2]
        q0  == Transpose(Linear(x, m.q_proj, IntScale, SumSeq, IntAdd), 0, 1)
    IN  Map(Transpose(Reshape(q0, <<N, bsz * m.num_heads, m.head_dim>>), 0, 1),
            LAMBDA v : DivScaling(v, m.scaling))

\* lines 185, 189
ProjectK(m, x) ==
    LET bsz == x.shape[1]
        N   == x.shape[2]
        k0  == Transpose(Linear(x, m.k_proj, IntScale, SumSeq, IntAdd), 0, 1)
    IN  Permute(Reshape(k0, <<N, bsz * m.num_heads, m.head_dim>>), <<1, 2, 0>>)

\* lines 186, 190
ProjectV(m, x) ==
    LET bsz == x.shape[1]
        N   == x.shape[2]
        v0  == Transpose(Linear(x, m.v_proj, IntScale, SumSeq, IntAdd), 0, 1)
    IN  Transpose(Reshape(v0, <<N, bsz * m.num_heads, m.head_dim>>), 0, 1)

DotScore(q, k) == Fin(DotQK(q, k))

\* variant: the first transpose(0, 2) is left out
RawScores_NoTranspose(m, q, k, bsz, N) ==
    Transpose(Reshape(Bmm(q, k, DotScore), <<N, N, bsz, m.num_heads>>), 0, 2)

\* lines 192-197: scores of shape (bsz, N, N, num_heads)
RawScores(m, q, k, bsz, N) ==
    Transpose(Reshape(Transpose(Bmm(q, k, DotScore), 0, 2), <<N, N, bsz, m.num_heads>>), 0, 2)

ScoreAdd(s, n) == IF s.k = "ninf" THEN s ELSE Fin(RAdd(s.v, Rad(n, 0)))

ScoreMul(s, n) == IF s.k = "ninf" THEN s ELSE Fin(RScale(s.v, n))

\* variant: the two bias types are exchanged
ApplyBias_Swapped(m, w, b) ==
    IF b # NoneT
    THEN IF m.attn_bias_type = "add" THEN Map2(w, b, ScoreMul) ELSE Map2(w, b, ScoreAdd)
    ELSE w

\* lines 199-203
ApplyBias(m, w, b) ==
    IF b # NoneT
    THEN IF m.attn_bias_type = "add" THEN Map2(w, b, ScoreAdd) ELSE Map2(w, b, ScoreMul)
    ELSE w

\* lines 205-206: attn_weights[attn_mask.to(th.bool)] = -inf, over the leading three dims
ApplyMask(w, msk) ==
    IF msk # NoneT
    THEN MkTensor(w.shape, LAMBDA idx :
            IF At(msk, <<idx[1], idx[2], idx[3]>>) # 0 THEN NegInf ELSE At(w, idx))
    ELSE w

\* self.dropout in evaluation mode (dropout disabled): the identity
Dropout(w) == w

\* lines 208-215: weights of shape (bsz * num_heads, N, N)
Normalize(m, w, bsz, N) ==
    Dropout(Softmax(Transpose(Reshape(Transpose(w, 0, 2), <<N, N, bsz * m.num_heads>>), 0, 2),
                    m.head_dim))

\* line 217 and the reshape of line 219: heads reassembled into (bsz, N, feat_size)
Attend(m, w, v, bsz, N) ==
    Transpose(Reshape(Transpose(Bmm(w, v, DotWV), 0, 1), <<N, bsz, m.feat_size>>), 0, 1)

\* line 219: the output projection
OutProj(m, a) == Linear(a, m.out_proj, CScale, CSum, CAddInt)

(************************** arguments of forward ***************************)
NdataSet(bsz, N, F) ==
    {MkTensor(<<bsz, N, F>>, LAMBDA idx : Draw(s, idx[1], idx[2], idx[3])) : s \in 1..MaxSeed}

BiasSet(bsz, N, H) ==
    {MkTensor(<<bsz, N, N, H>>, LAMBDA idx : 0)}
    \cup {MkTensor(<<bsz, N, N, H>>,
                   LAMBDA idx : Draw(s, idx[1] + 2 * idx[4], idx[2], idx[3]) + idx[4])
          : s \in 1..MaxSeed}

\* non-zero marks an invalid position; seeds give fully, partly and not masked rows
MaskSet(bsz, N) ==
    {MkTensor(<<bsz, N, N>>,
              LAMBDA idx : (2 * s + 2 * idx[1] + 2 * idx[2] + 2 * idx[3]
                            + 2 * idx[2] * idx[3] + 2 * idx[1] * idx[3] + s * idx[3]) % 3)
     : s \in 1..MaxSeed}

(********************************* actions *********************************)
attnVars ==
    <<pc, ctor_args, mha, ndata, attn_bias, attn_mask, q_h, k_h, v_h, attn_weights, result, expected>>

Init ==
    /\ pc = "new"
    /\ ctor_args = NoArgs
    /\ mha = NoModule
    /\ ndata = NoneT /\ attn_bias = NoneT /\ attn_mask = NoneT
    /\ q_h = NoneT /\ k_h = NoneT /\ v_h = NoneT /\ attn_weights = NoneT
    /\ result = NoneT
    /\ expected = NoneT
    /\ dpc = "new"
    /\ enc = NoEncoder
    /\ graph = NoGraph /\ g = NoGraph
    /\ in_degree = NoneT /\ out_degree = NoneT
    /\ degree_embedding = NoneT
    /\ derror = "none"

\* net = BiasedMultiheadAttention(feat_size, num_heads, bias, attn_bias_type)
Construct ==
    /\ pc = "new"
    /\ \E feat_size \in 1..MaxFeat, num_heads \in 1..MaxHeads, bias \in BOOLEAN,
          attn_bias_type \in BiasTypes, seed \in 1..MaxSeed :
          LET r == BiasedMultiheadAttention(feat_size, num_heads, bias, attn_bias_type, seed)
          IN  /\ ctor_args' = [feat_size |-> feat_size, num_heads |-> num_heads,
                               bias |-> bias, attn_bias_type |-> attn_bias_type]
              /\ mha' = r.obj
              /\ pc' = IF r.ok THEN "ready" ELSE "failed"
    /\ UNCHANGED <<ndata, attn_bias, attn_mask, q_h, k_h, v_h, attn_weights, result, expected>>
    /\ UNCHANGED degVars

\* net(ndata, attn_bias, attn_mask) on fresh tensors: entry into forward
Call ==
    /\ pc = "ready"
    /\ ndata = NoneT
    /\ \E bsz \in 1..MaxBatch, N \in 1..MaxN :
         \E x \in NdataSet(bsz, N, mha.feat_size),
            b \in {NoneT} \cup BiasSet(bsz, N, mha.num_heads),
            msk \in {NoneT} \cup MaskSet(bsz, N) :
            /\ ndata' = x
            /\ attn_bias' = b
            /\ attn_mask' = msk
    /\ result' = NoneT
    /\ expected' = NoneT
    /\ pc' = "project"
    /\ UNCHANGED <<ctor_args, mha, q_h, k_h, v_h, attn_weights>>
    /\ UNCHANGED degVars

\* the caller keeps y = net(ndata, attn_bias, attn_mask) and calls net again on the
\* same three tensor objects
CallAgain ==
    /\ pc = "ready"
    /\ result # NoneT
    /\ expected' = result
    /\ result' = NoneT
    /\ pc' = "project"
    /\ UNCHANGED <<ctor_args, mha, ndata, attn_bias, attn_mask, q_h, k_h, v_h, attn_weights>>
    /\ UNCHANGED degVars

\* the caller drops the tensors of the last call and its result; the module stays
Release ==
    /\ pc = "ready"
    /\ ndata # NoneT
    /\ ndata' = NoneT /\ attn_bias' = NoneT /\ attn_mask' = NoneT
    /\ result' = NoneT
    /\ expected' = NoneT
    /\ UNCHANGED <<pc, ctor_args, mha, q_h, k_h, v_h, attn_weights>>
    /\ UNCHANGED degVars

\* lines 184-190
Project ==
    /\ pc = "project"
    /\ q_h' = ProjectQ(mha, ndata)
    /\ k_h' = ProjectK(mha, ndata)
    /\ v_h' = ProjectV(mha, ndata)
    /\ pc' = "scores"
    /\ UNCHANGED <<ctor_args, mha, ndata, attn_bias, attn_mask, attn_weights, result, expected>>
    /\ UNCHANGED degVars

\* lines 192-197
Scores ==
    /\ pc = "scores"
    /\ attn_weights' = RawScores(mha, q_h, k_h, ndata.shape[1], ndata.shape[2])
    /\ pc' = "bias"
    /\ UNCHANGED <<ctor_args, mha, ndata, attn_bias, attn_mask, q_h, k_h, v_h, result, expected>>
    /\ UNCHANGED degVars

\* variant: the in-place operation lands in the caller's attn_bias (its integer part)
Bias_WritesArgument ==
    /\ pc = "bias"
    /\ attn_weights' = ApplyBias(mha, attn_weights, attn_bias)
    /\ attn_bias' = IF attn_bias = NoneT THEN NoneT
                    ELSE Map(ApplyBias(mha, attn_weights, attn_bias), LAMBDA sc : sc.v.a)
    /\ pc' = "mask"
    /\ UNCHANGED <<ctor_args, mha, ndata, attn_mask, q_h, k_h, v_h, result, expected>>
    /\ UNCHANGED degVars

\* lines 199-203: in-place add / multiply on attn_weights
Bias ==
    /\ pc = "bias"
    /\ attn_weights' = ApplyBias(mha, attn_weights, attn_bias)
    /\ pc' = "mask"
    /\ UNCHANGED <<ctor_args, mha, ndata, attn_bias, attn_mask, q_h, k_h, v_h, result, expected>>
    /\ UNCHANGED degVars

\* lines 205-206: in-place masked write on attn_weights
Mask ==
    /\ pc = "mask"
    /\ attn_weights' = ApplyMask(attn_weights, attn_mask)
    /\ pc' = "softmax"
    /\ UNCHANGED <<ctor_args, mha, ndata, attn_bias, attn_mask, q_h, k_h, v_h, result, expected>>
    /\ UNCHANGED degVars

\* lines 208-215
SoftmaxStep ==
    /\ pc = "softmax"
    /\ attn_weights' = Normalize(mha, attn_weights, ndata.shape[1], ndata.shape[2])
    /\ pc' = "output"
    /\ UNCHANGED <<ctor_args, mha, ndata, attn_bias, attn_mask, q_h, k_h, v_h, result, expected>>
    /\ UNCHANGED degVars

\* lines 217-221: the locals die with the frame
Output ==
    /\ pc = "output"
    /\ result' = OutProj(mha, Attend(mha, attn_weights, v_h, ndata.shape[1], ndata.shape[2]))
    /\ q_h' = NoneT /\ k_h' = NoneT /\ v_h' = NoneT /\ attn_weights' = NoneT
    /\ pc' = "ready"
    /\ UNCHANGED <<ctor_args, mha, ndata, attn_bias, attn_mask, expected>>
    /\ UNCHANGED degVars

\* degree_encoder = DegreeEncoder(max_degree, embedding_dim, direction)
EncConstruct ==
    /\ dpc = "new"
    /\ \E max_degree \in 0..MaxDegree, embedding_dim \in 1..MaxDim,
          direction \in Directions, seed \in 1..MaxSeed :
          enc' = DegreeEncoder(max_degree, embedding_dim, direction, seed)
    /\ dpc' = "built"
    /\ UNCHANGED <<graph, g, in_degree, out_degree, degree_embedding, derror>>
    /\ UNCHANGED attnVars

\* degree_encoder(graph) on a fresh graph: entry into forward
EncCall ==
    /\ dpc = "built"
    /\ graph = NoGraph
    /\ \E gr \in Graphs : graph' = gr
    /\ degree_embedding' = NoneT
    /\ derror' = "none"
    /\ dpc' = "degrees"
    /\ UNCHANGED <<enc, g, in_degree, out_degree>>
    /\ UNCHANGED attnVars

\* lines 69-72
EncDegrees ==
    /\ dpc = "degrees"
    /\ g' = Homogeneous(graph)
    /\ in_degree' = ClampedIn(enc, Homogeneous(graph))
    /\ out_degree' = ClampedOut(enc, Homogeneous(graph))
    /\ dpc' = "lookup"
    /\ UNCHANGED <<enc, graph, degree_embedding, derror>>
    /\ UNCHANGED attnVars

\* lines 74-87: return the embedding or raise; the locals die with the frame
EncReturn ==
    /\ dpc = "lookup"
    /\ LET r == Encode(enc, in_degree, out_degree)
       IN  /\ degree_embedding' = r.val
           /\ derror' = r.err
    /\ g' = NoGraph /\ in_degree' = NoneT /\ out_degree' = NoneT
    /\ dpc' = "built"
    /\ UNCHANGED <<enc, graph>>
    /\ UNCHANGED attnVars

\* the caller drops the graph of the last call and its result; the encoder stays
EncRelease ==
    /\ dpc = "built"
    /\ graph # NoGraph
    /\ graph' = NoGraph
    /\ degree_embedding' = NoneT
    /\ derror' = "none"
    /\ UNCHANGED <<dpc, enc, g, in_degree, out_degree>>
    /\ UNCHANGED attnVars

vars == <<attnVars, degVars>>

Next ==
    Construct \/ Call \/ CallAgain \/ Release \/ Project \/ Scores \/ Bias \/ Mask \/ SoftmaxStep \/ Output

Spec == Init /\ [][Next]_vars

DegNext == EncConstruct \/ EncCall \/ EncDegrees \/ EncReturn \/ EncRelease

DegSpec == Init /\ [][DegNext]_vars

(******************** reference: attention per batch and head **************)
\* the three projections of the current ndata, indexed [b, i, f]
QP == Linear(ndata, mha.q_proj, IntScale, SumSeq, IntAdd)

KP == Linear(ndata, mha.k_proj, IntScale, SumSeq, IntAdd)

VP == Linear(ndata, mha.v_proj, IntScale, SumSeq, IntAdd)

\* features of head h: h * head_dim .. (h + 1) * head_dim - 1
HeadFeats(h) == [d \in 1..mha.head_dim |-> h * mha.head_dim + d - 1]

\* Q[b, i, head h] . K[b, j, head h], an integer; Q and K indexed [b, i, f]
HeadDot(Q, K, b, i, j, h) ==
    SumSeq([d \in 1..mha.head_dim |->
              At(Q, <<b, i, HeadFeats(h)[d]>>) * At(K, <<b, j, HeadFeats(h)[d]>>)])

\* the scores of every (batch, head) slab with the module's own query scaling,
\* indexed [b, i, j, h]
RefScore(Q, K) ==
    MkTensor(<<ndata.shape[1], ndata.shape[2], ndata.shape[2], mha.num_heads>>,
             LAMBDA idx :
                Fin(RSum([d \in 1..mha.head_dim |->
                    RScale(DivScaling(At(Q, <<idx[1], idx[2], HeadFeats(idx[4])[d]>>), mha.scaling),
                           At(K, <<idx[1], idx[3], HeadFeats(idx[4])[d]>>))])))

Masked(b, i, j) == attn_mask # NoneT /\ At(attn_mask, <<b, i, j>>) # 0

\* score [b,i,j,h] combined with attn_bias[b,i,j,h], then overridden by attn_mask[b,i,j]
RefMasked(S) ==
    MkTensor(S.shape,
             LAMBDA idx :
                IF Masked(idx[1], idx[2], idx[3]) THEN NegInf
                ELSE IF attn_bias = NoneT THEN At(S, idx)
                ELSE IF mha.attn_bias_type = "add" THEN ScoreAdd(At(S, idx), At(attn_bias, idx))
                ELSE ScoreMul(At(S, idx), At(attn_bias, idx)))

\* indexed [b, i, h]: the weights of query i over the keys j
RefWeights(M) ==
    MkTensor(<<ndata.shape[1], ndata.shape[2], mha.num_heads>>,
             LAMBDA idx :
                SoftmaxRow(Eval([j \in 1..ndata.shape[2] |->
                                   At(M, <<idx[1], idx[2], j - 1, idx[3]>>)]), mha.head_dim))

\* indexed [b, i, f]: sum over j of weight[b,i,j,h] * V[b,j,f], h the head of feature f
RefAttn(W, V) ==
    MkTensor(ndata.shape,
             LAMBDA idx :
                DotWV(At(W, <<idx[1], idx[2], idx[3] \div mha.head_dim>>),
                      [j \in 1..ndata.shape[2] |-> At(V, <<idx[1], j - 1, idx[3]>>)]))

RefOut(A) == Linear(A, mha.out_proj, CScale, CSum, CAddInt)

Bs == 0..(ndata.shape[1] - 1)

Ns == 0..(ndata.shape[2] - 1)

Hs == 0..(mha.num_heads - 1)

\* whole forward as the composition of its stages
ForwardWeights(m, x, b, msk) ==
    Normalize(m, ApplyMask(ApplyBias(m, RawScores(m, ProjectQ(m, x), ProjectK(m, x),
                                                  x.shape[1], x.shape[2]), b), msk),
              x.shape[1], x.shape[2])

forward(m, x, b, msk) ==
    OutProj(m, Attend(m, ForwardWeights(m, x, b, msk), ProjectV(m, x), x.shape[1], x.shape[2]))

Zeros(shape) == MkTensor(shape, LAMBDA idx : 0)

(********************************* claims **********************************)

\* C1: for every b, h, i, j the raw score before bias and mask equals
\* (Q[b,i,head h] . K[b,j,head h]) / sqrt(head_dim), i.e. score * sqrt(head_dim)
\* equals the dot product.
C1_ScaledOnce ==
    pc = "bias" =>
        \A b \in Bs, i \in Ns, j \in Ns, h \in Hs :
            LET sc == At(attn_weights, <<b, i, j, h>>).v
            IN  RNorm(Rad(sc.b * mha.head_dim, sc.a), mha.head_dim)
                    = Rad(HeadDot(QP, KP, b, i, j, h), 0)

\* C1, what the code computes: the dot product times sqrt(head_dim)
C1_CodeScore ==
    pc = "bias" =>
        LET Q == QP
            K == KP
        IN  \A b \in Bs, i \in Ns, j \in Ns, h \in Hs :
               At(attn_weights, <<b, i, j, h>>).v
                   = RNorm(Rad(0, HeadDot(Q, K, b, i, j, h)), mha.head_dim)

\* C2: every position (b, i, j) with a non-zero attn_mask has attention weight exactly
\* zero after softmax, for every head, with or without bias and for either bias
\* type, also in a row whose keys are all masked.
C2_MaskedWeightZero ==
    pc = "output" =>
        \A b \in Bs, i \in Ns, j \in Ns, h \in Hs :
            Masked(b, i, j) => At(attn_weights, <<b * mha.num_heads + h, i, j>>) = WZero

\* C2, what the code computes: a masked position has weight zero when its row keeps
\* an unmasked key, and NaN (like the whole row) when every key of the row is masked
C2_CodeMaskedWeight ==
    pc = "output" =>
        \A b \in Bs, i \in Ns, j \in Ns, h \in Hs :
            Masked(b, i, j) =>
                At(attn_weights, <<b * mha.num_heads + h, i, j>>) =
                    IF \E k \in Ns : ~Masked(b, i, k) THEN WZero ELSE WNaN

\* C3: construction fails exactly when feat_size is not divisible by num_heads; a
\* failed construction leaves no module and no forward call is ever made on it; a
\* successful one has head_dim * num_heads = feat_size.
C3_DivisibleOrError ==
    pc # "new" =>
        /\ (pc = "failed") <=> (ctor_args.feat_size % ctor_args.num_heads # 0)
        /\ pc = "failed" => mha = NoModule /\ ndata = NoneT /\ result = NoneT
        /\ pc # "failed" =>
              /\ mha.feat_size = ctor_args.feat_size
              /\ mha.num_heads = ctor_args.num_heads
              /\ mha.head_dim * mha.num_heads = mha.feat_size

C3_Witness == pc = "failed" /\ ctor_args.feat_size = 4 /\ ctor_args.num_heads = 3

\* C7: while a forward call runs, ndata, attn_bias, attn_mask and the module's
\* parameters are left unchanged; between calls no local survives; and a call
\* repeated on the same inputs returns the same output.
C7_Frame ==
    pc \notin {"new", "failed", "ready"} =>
        /\ ndata' = ndata /\ attn_bias' = attn_bias /\ attn_mask' = attn_mask
        /\ mha' = mha

C7_Stateless ==
    pc = "ready" =>
        /\ q_h = NoneT /\ k_h = NoneT /\ v_h = NoneT /\ attn_weights = NoneT
        /\ (expected # NoneT /\ result # NoneT) => result = expected

C7_PurelyFunctional == [][C7_Frame]_vars /\ []C7_Stateless

C7_Witness ==
    /\ pc = "ready" /\ expected # NoneT /\ result # NoneT
    /\ attn_bias # NoneT /\ attn_mask # NoneT /\ ndata.shape[1] > 1

\* C8: with attn_bias_type "add", an all-zero attn_bias gives the same attention
\* weights and the same output as attn_bias = None, for every ndata and attn_mask.
C8_ZeroBiasIsNoBias ==
    (mha.attn_bias_type = "add" /\ attn_bias # NoneT /\ attn_bias = Zeros(attn_bias.shape)) =>
        /\ pc = "output" => attn_weights = ForwardWeights(mha, ndata, NoneT, attn_mask)
        /\ (pc = "ready" /\ result # NoneT) => result = forward(mha, ndata, NoneT, attn_mask)

C8_Witness ==
    /\ pc = "ready" /\ result # NoneT
    /\ mha.attn_bias_type = "add" /\ attn_bias # NoneT /\ attn_bias = Zeros(attn_bias.shape)
    /\ attn_mask # NoneT /\ mha.num_heads > 1
    /\ \E k \in 1..Len(result.data) : ~result.data[k].nan /\ result.data[k].t # {}

\* C10: batch elements and heads stay independent through the reshapes: the score at
\* [b,i,j,h] uses only the features of head h of Q[b,i] and K[b,j], is combined with
\* attn_bias[b,i,j,h] and attn_mask[b,i,j], softmax runs over j for fixed (b,i,h),
\* and the output is the projection of sum_j weight[b,i,j,h] * V[b,j,head h], of
\* shape (batch, N, feat_size).
C10_HeadBatchIndependent ==
    LET S == RefScore(QP, KP)
        M == RefMasked(S)
        W == RefWeights(M)
    IN  /\ pc = "bias" => attn_weights = S
        /\ pc = "softmax" => attn_weights = M
        /\ pc = "output" =>
              \A b \in Bs, i \in Ns, j \in Ns, h \in Hs :
                 At(attn_weights, <<b * mha.num_heads + h, i, j>>) = At(W, <<b, i, h>>)[j + 1]
        /\ (pc = "ready" /\ result # NoneT) =>
              /\ ndata.shape[3] = mha.feat_size
              /\ result = RefOut(RefAttn(W, VP))

C10_Witness ==
    /\ pc = "ready" /\ result # NoneT
    /\ ndata.shape[1] > 1 /\ ndata.shape[2] > 1 /\ mha.num_heads > 1 /\ mha.head_dim > 1
    /\ attn_bias # NoneT /\ attn_mask # NoneT
    /\ \E k \in 1..Len(result.data) : ~result.data[k].nan /\ result.data[k].t # {}

(************************* claims: DegreeEncoder ***************************)
Nodes == 0..(graph.num_nodes - 1)

\* the degrees of node v of the graph passed to forward, counted on its edges
RawIn(v) == SumSeq([u \in 1..graph.num_nodes |-> EdgeCount(graph, u - 1, v)])

RawOut(v) == SumSeq([u \in 1..graph.num_nodes |-> EdgeCount(graph, v, u - 1)])

Least(x, y) == IF x < y THEN x ELSE y

Returned == dpc = "built" /\ graph # NoGraph

Tables(e) == {t \in {e.degree_encoder, e.degree_encoder_1, e.degree_encoder_2} : t # NoneT}

\* C4: every in-degree and out-degree index passed to an embedding table is
\* min(degree, max_degree), lies in 0..max_degree, and the tables have max_degree + 1
\* rows, so no lookup is out of range.
C4_DegreesInRange ==
    /\ derror # "IndexError"
    /\ dpc # "new" => \A t \in Tables(enc) : t.shape[1] = enc.max_degree + 1
    /\ dpc = "lookup" =>
          \A v \in Nodes :
             /\ At(in_degree, <<v>>) = Least(RawIn(v), enc.max_degree)
             /\ At(out_degree, <<v>>) = Least(RawOut(v), enc.max_degree)
             /\ At(in_degree, <<v>>) \in 0..enc.max_degree
             /\ At(out_degree, <<v>>) \in 0..enc.max_degree

C4_Witness ==
    /\ dpc = "lookup"
    /\ \E v \in Nodes : RawIn(v) > enc.max_degree
    /\ \E v \in Nodes : RawOut(v) > enc.max_degree /\ enc.max_degree > 0

\* an encoder of one direction holding the given table
OneWay(e, direction, table) ==
    [direction |-> direction, max_degree |-> e.max_degree,
     degree_encoder |-> table, degree_encoder_1 |-> NoneT, degree_encoder_2 |-> NoneT]

\* forward as the composition of its stages
encode(e, gr) == Encode(e, ClampedIn(e, Homogeneous(gr)), ClampedOut(e, Homogeneous(gr)))

\* C5: "in" looks up the clamped in-degree, "out" the clamped out-degree, "both" the
\* in-degree on the first table plus the out-degree on the second; so the output of a
\* "both" encoder is the elementwise sum of the outputs of an "in" encoder holding its
\* first table and an "out" encoder holding its second table.
C5_BothIsSumOfInAndOut ==
    (Returned /\ enc.direction \in {"in", "out", "both"}) =>
        /\ derror = "none"
        /\ \A v \in Nodes : \A d \in 0..(degree_embedding.shape[2] - 1) :
              LET i == Least(RawIn(v), enc.max_degree)
                  o == Least(RawOut(v), enc.max_degree)
              IN  At(degree_embedding, <<v, d>>) =
                     IF enc.direction = "in" THEN At(enc.degree_encoder, <<i, d>>)
                     ELSE IF enc.direction = "out" THEN At(enc.degree_encoder, <<o, d>>)
                     ELSE At(enc.degree_encoder_1, <<i, d>>) + At(enc.degree_encoder_2, <<o, d>>)
        /\ enc.direction = "both" =>
              degree_embedding =
                  Map2(encode(OneWay(enc, "in", enc.degree_encoder_1), graph).val,
                       encode(OneWay(enc, "out", enc.degree_encoder_2), graph).val,
                       LAMBDA x, y : x + y)

C5_Witness ==
    /\ Returned /\ enc.direction = "both" /\ derror = "none"
    /\ \E v \in Nodes :
          /\ Least(RawIn(v), enc.max_degree) # Least(RawOut(v), enc.max_degree)
          /\ \E d \in 0..(degree_embedding.shape[2] - 1) :
                /\ At(enc.degree_encoder_1, <<Least(RawIn(v), enc.max_degree), d>>) # 0
                /\ At(enc.degree_encoder_2, <<Least(RawOut(v), enc.max_degree), d>>) # 0
                /\ At(degree_embedding, <<v, d>>) # 0

\* C6: an encoder whose direction is none of "in", "out", "both" never returns an
\* embedding: its forward call raises the invalid-configuration error; an encoder with
\* a recognized direction never raises it.
C6_InvalidDirectionRaises ==
    dpc # "new" =>
        /\ enc.direction \notin {"in", "out", "both"} =>
              /\ degree_embedding = NoneT
              /\ Returned => derror = "ValueError"
        /\ enc.direction \in {"in", "out", "both"} =>
              /\ derror # "ValueError"
              /\ Returned => degree_embedding # NoneT

C6_Witness == Returned /\ enc.direction = "total" /\ derror = "ValueError"

\* C9: for a freshly initialised encoder the embedding of a node of degree 0 is the
\* zero vector: with "in" / "out" when its degree in that direction is 0, with "both"
\* when both its degrees are 0; for every embedding_dim and max_degree, 0 included.
C9_ZeroDegreeZeroVector ==
    (Returned /\ derror = "none") =>
        \A v \in Nodes :
           (\/ enc.direction = "in" /\ RawIn(v) = 0
            \/ enc.direction = "out" /\ RawOut(v) = 0
            \/ enc.direction = "both" /\ RawIn(v) = 0 /\ RawOut(v) = 0)
           => \A d \in 0..(degree_embedding.shape[2] - 1) : At(degree_embedding, <<v, d>>) = 0

C9_Witness ==
    /\ Returned /\ derror = "none" /\ enc.direction = "both" /\ enc.max_degree > 0
    /\ \E v \in Nodes : RawIn(v) = 0 /\ RawOut(v) = 0
    /\ \E k \in 1..Len(degree_embedding.data) : degree_embedding.data[k] # 0

====
